---- MODULE Spec2Model ----
\* Model of src/worker.py: the serverless worker bootstrap script.
\* The script is one sequential top-level program; pc is its position.
\* The environment (file system, external commands, the backend child, the
\* health endpoint, the vastai Router) is nondeterministic.
EXTENDS Integers, Sequences, FiniteSets, TLC

\* ------------------------------------------------------------------ bounds
\* lines a previous run may have left in the log sink
MaxOldLines == 2
\* the backend child stops writing once the log sink holds this many lines
MaxLogLines == 30
\* lines the backend child appends per write
ChunkLines == 10
\* runs of the script where a restart is followed
MaxRuns == 2

\* ------------------------------------------------- constants of the source
DEFAULT_DISPLAY == ":99"
CHILD_DISPLAY == ":99"
UNSET == "<unset>"
CA_CERT == "/root/.mitmproxy/mitmproxy-ca-cert.pem"
ENTRY_POINT == "app_server.py"
Candidates == <<"/root/service", "/workspace">>
PythonCandidates == <<"/usr/bin/python3", "/usr/local/bin/python3">>
SysExecutable == "sys.executable"
LOG_PATH == "/var/log/image-gen/server.log"
\* variant: range(59)
MaxAttemptsShort == 59
MaxAttempts == 60
TailLines == 20
ExitCodeNoEntry == 1
\* variant: sys.exit(0) after the health timeout
ExitCodeUnhealthyZero == 0
ExitCodeUnhealthy == 1
\* exit status of the interpreter after an uncaught exception / a normal end
ExitCodeUncaught == 1
ExitCodeNormal == 0
NONE == "<none>"

\* os.path.join(candidate, "app_server.py")
Join(dir, file) == <<dir, file>>

\* every path whose existence the script tests
Paths ==
  {Join(Candidates[k], ENTRY_POINT) : k \in 1..Len(Candidates)}
    \cup {<<PythonCandidates[k]>> : k \in 1..Len(PythonCandidates)}
    \cup {<<CA_CERT>>}

InitialDisplays == {UNSET, ":99", ":0"}

\* messages the script prints
MsgXvfbStarting == "[worker] Starting Xvfb..."
MsgXvfbRunning == "[worker] Xvfb already running"
MsgXvfbFailed == "[worker] Xvfb check failed"
MsgCAInstalled == "[worker] mitmproxy CA installed"
MsgNoEntry == "[worker] ERROR: Cannot find app_server.py in /root/service or /workspace"
MsgStarting == "[worker] Starting FastAPI from"
MsgWaiting == "[worker] Waiting for FastAPI health..."
MsgUnhealthy == "[worker] ERROR: FastAPI did not become healthy in 60s"
MsgHealthy == "[worker] FastAPI is healthy!"

VARIABLES
  pc,            \* position of the script
  environ,       \* os.environ, restricted to DISPLAY
  fs,            \* paths that exist
  xvfbOutcome,   \* what the Xvfb block met
  xvfbStarted,   \* number of Xvfb processes spawned by the script
  xvfbAlive,     \* an Xvfb spawned by the script is running
  caOutcome,     \* what the CA block met
  SERVICE_DIR,
  SYSTEM_PYTHON,
  logFile,       \* content of /var/log/image-gen/server.log, a sequence of lines
  logOpened,     \* log_file has been opened by the script
  server_proc,   \* the Popen of the backend: argv, cwd, env
  backendAlive,  \* the backend child is running
  i,             \* loop variable of the health loop
  healthy,
  probes,        \* urlopen calls made
  sleeps,        \* time.sleep(1) calls made in the health loop
  got200,        \* some probe returned status 200
  first200,      \* number of the probe that first returned 200, 0 if none
  stdout,        \* messages printed, in order
  readLines,     \* what f.readlines() returned in the failure branch
  printedLines,  \* log lines printed in the failure branch
  logRead,       \* outcome of the diagnostic read
  config,        \* the WorkerConfig handed to the Router
  routerInvoked, \* Worker(config).run() has been called
  uncaught,      \* the script died of an uncaught exception
  exitCode,      \* exit status of the process, -1 while it runs
  runs,          \* runs of the script started so far
  elapsed        \* time units spent in the health loop, where it is timed

vars == <<pc, environ, fs, xvfbOutcome, xvfbStarted, caOutcome, SERVICE_DIR,
          SYSTEM_PYTHON, logFile, logOpened, server_proc, backendAlive, i,
          healthy, probes, sleeps, got200, first200, stdout, readLines,
          printedLines, logRead, config, routerInvoked, uncaught, exitCode,
          xvfbAlive, runs, elapsed>>

prepVars == <<xvfbOutcome, xvfbStarted, xvfbAlive, caOutcome>>
launchVars == <<SERVICE_DIR, SYSTEM_PYTHON, logOpened, server_proc>>
gateVars == <<i, healthy, probes, sleeps, got200, first200>>
diagVars == <<readLines, printedLines, logRead>>
endVars == <<config, routerInvoked, uncaught, exitCode>>

\* os.path.exists
Exists(path) == path \in fs

\* server_proc before the Popen
NoProc == [argv |-> <<>>, cwd |-> NONE, env |-> [DISPLAY |-> NONE]]

\* config before it is built
NoConfig ==
  [model_server_url |-> NONE, model_server_port |-> 0, model_log_file |-> NONE,
   handlers |-> <<>>, on_load |-> <<>>, on_error |-> <<>>]

Init ==
  /\ pc = "setdefault"
  /\ environ \in [DISPLAY : InitialDisplays]
  /\ fs \in SUBSET Paths
  /\ xvfbOutcome = NONE
  /\ xvfbStarted = 0
  /\ xvfbAlive = FALSE
  /\ caOutcome = NONE
  /\ SERVICE_DIR = NONE
  /\ SYSTEM_PYTHON = NONE
  /\ logFile \in {[k \in 1..n |-> 0] : n \in 0..MaxOldLines}
  /\ logOpened = FALSE
  /\ server_proc = NoProc
  /\ backendAlive = FALSE
  /\ i = 0
  /\ healthy = FALSE
  /\ probes = 0
  /\ sleeps = 0
  /\ got200 = FALSE
  /\ first200 = 0
  /\ stdout = <<>>
  /\ readLines = <<>>
  /\ printedLines = <<>>
  /\ logRead = NONE
  /\ config = NoConfig
  /\ routerInvoked = FALSE
  /\ uncaught = FALSE
  /\ exitCode = -1
  /\ runs = 1
  /\ elapsed = 0

\* ------------------------------------------------------ 1. Xvfb (l. 19-34)
\* os.environ.setdefault("DISPLAY", ":99")
SetDefault(env, key, value) ==
  IF env[key] = UNSET THEN [env EXCEPT ![key] = value] ELSE env

SetDefaultDisplay ==
  /\ pc = "setdefault"
  /\ environ' = SetDefault(environ, "DISPLAY", DEFAULT_DISPLAY)
  /\ pc' = "xvfb"
  /\ UNCHANGED <<fs, runs, elapsed, prepVars, launchVars, logFile,
                 backendAlive, gateVars, stdout, diagVars, endVars>>

\* outcomes of the try block: pgrep finds Xvfb; pgrep does not and Popen
\* succeeds; pgrep raises or times out; pgrep does not find it and Popen raises
XvfbOutcomes == {"running", "not_running", "check_raises", "popen_raises"}

\* what the try/except prints for an outcome
XvfbMessages(outcome) ==
  CASE outcome = "running" -> <<MsgXvfbRunning>>
    [] outcome = "not_running" -> <<MsgXvfbStarting>>
    [] outcome = "check_raises" -> <<MsgXvfbFailed>>
    [] outcome = "popen_raises" -> <<MsgXvfbStarting, MsgXvfbFailed>>

\* variant: an exception of the pgrep call is not caught
AfterXvfbUncaught(outcome) ==
  IF outcome = "check_raises" THEN "exited" ELSE "ca"

\* position after the Xvfb block: every exception is caught
AfterXvfb(outcome) == "ca"

\* variant: Xvfb is spawned without asking pgrep first
XvfbCheckNoPgrep ==
  /\ pc = "xvfb"
  /\ \E outcome \in {"not_running", "popen_raises"} :
       /\ xvfbOutcome' = outcome
       /\ xvfbStarted' = IF outcome = "not_running" THEN xvfbStarted + 1
                         ELSE xvfbStarted
       /\ xvfbAlive' = IF outcome = "not_running" THEN TRUE ELSE xvfbAlive
       /\ stdout' = stdout \o XvfbMessages(outcome)
       /\ pc' = AfterXvfb(outcome)
  /\ UNCHANGED <<environ, fs, runs, elapsed, caOutcome, launchVars, logFile,
                 backendAlive, gateVars, diagVars, endVars>>

\* pgrep finds every running Xvfb, so it reports "not running" only when
\* the Xvfb spawned by the script is not running
XvfbCheck ==
  /\ pc = "xvfb"
  /\ \E outcome \in XvfbOutcomes :
       /\ outcome \in {"not_running", "popen_raises"} => ~xvfbAlive
       /\ xvfbOutcome' = outcome
       /\ xvfbStarted' = IF outcome = "not_running" THEN xvfbStarted + 1
                         ELSE xvfbStarted
       /\ xvfbAlive' = IF outcome = "not_running" THEN TRUE ELSE xvfbAlive
       /\ stdout' = stdout \o XvfbMessages(outcome)
       /\ pc' = AfterXvfb(outcome)
  /\ UNCHANGED <<environ, fs, runs, elapsed, caOutcome, launchVars, logFile,
                 backendAlive, gateVars, diagVars, endVars>>

\* ------------------------------------------- 2. mitmproxy CA (l. 39-49)
\* outcomes of certutil when the certificate file exists
CertutilOutcomes == {"ok", "nonzero", "raises"}

\* what the block prints: the return code is not looked at, an exception is
\* swallowed
CAMessages(outcome) ==
  CASE outcome = "skipped" -> <<>>
    [] outcome = "ok" -> <<MsgCAInstalled>>
    [] outcome = "nonzero" -> <<MsgCAInstalled>>
    [] outcome = "raises" -> <<>>

InstallCA ==
  /\ pc = "ca"
  /\ \E outcome \in CertutilOutcomes :
       /\ caOutcome' = IF Exists(<<CA_CERT>>) THEN outcome ELSE "skipped"
       /\ stdout' = stdout \o CAMessages(caOutcome')
  /\ pc' = "lookup"
  /\ UNCHANGED <<environ, fs, runs, elapsed, xvfbOutcome, xvfbStarted,
                 xvfbAlive, launchVars, logFile, backendAlive, gateVars,
                 diagVars, endVars>>

\* the Xvfb spawned by the script ends; the script keeps no handle on it
XvfbExit ==
  /\ xvfbAlive
  /\ xvfbAlive' = FALSE
  /\ UNCHANGED <<pc, environ, fs, runs, elapsed, xvfbOutcome, xvfbStarted,
                 caOutcome, launchVars, logFile, backendAlive, gateVars,
                 stdout, diagVars, endVars>>

\* ------------------------------------- 3. service directory (l. 55-63)
\* the for loop over the candidates from index k on: first match wins
RECURSIVE ScanCandidates(_, _)
ScanCandidates(files, k) ==
  IF k > Len(Candidates) THEN NONE
  ELSE IF Join(Candidates[k], ENTRY_POINT) \in files THEN Candidates[k]
  ELSE ScanCandidates(files, k + 1)

\* variant: the last candidate is used when none holds the entry point
FindServiceDirFallback(files) ==
  IF ScanCandidates(files, 1) = NONE THEN Candidates[Len(Candidates)]
  ELSE ScanCandidates(files, 1)

\* variant: the candidates are tried in the reverse order
FindServiceDirLastWins(files) ==
  IF Join(Candidates[2], ENTRY_POINT) \in files THEN Candidates[2]
  ELSE IF Join(Candidates[1], ENTRY_POINT) \in files THEN Candidates[1]
  ELSE NONE

FindServiceDir(files) == ScanCandidates(files, 1)

LookupServiceDir ==
  /\ pc = "lookup"
  /\ SERVICE_DIR' = FindServiceDir(fs)
  /\ pc' = IF SERVICE_DIR' = NONE THEN "no_entry" ELSE "open_log"
  /\ UNCHANGED <<environ, fs, runs, elapsed, prepVars, SYSTEM_PYTHON,
                 logOpened, server_proc, logFile, backendAlive, gateVars,
                 stdout, diagVars, endVars>>

\* variant: the branch exits without the print of line 62
NoEntryReportSilent ==
  /\ pc = "no_entry"
  /\ pc' = "no_entry_exit"
  /\ UNCHANGED <<environ, fs, runs, elapsed, prepVars, launchVars, logFile,
                 backendAlive, gateVars, stdout, diagVars, endVars>>

\* print of line 62
NoEntryReport ==
  /\ pc = "no_entry"
  /\ stdout' = Append(stdout, MsgNoEntry)
  /\ pc' = "no_entry_exit"
  /\ UNCHANGED <<environ, fs, runs, elapsed, prepVars, launchVars, logFile,
                 backendAlive, gateVars, diagVars, endVars>>

\* sys.exit(1) of line 63
NoEntryExit ==
  /\ pc = "no_entry_exit"
  /\ exitCode' = ExitCodeNoEntry
  /\ pc' = "exited"
  /\ UNCHANGED <<environ, fs, runs, elapsed, prepVars, launchVars, logFile,
                 backendAlive, gateVars, stdout, diagVars, config,
                 routerInvoked, uncaught>>

\* an exception nothing catches: traceback, interpreter exits
Crash ==
  /\ uncaught' = TRUE
  /\ exitCode' = ExitCodeUncaught
  /\ pc' = "exited"

\* ------------------------------------------- log sink (l. 65-68)
\* variant: the mode is ignored, the file is opened for appending
OpenFileAppend(content, mode) == content

\* content of a file after open(path, mode)
OpenFile(content, mode) == IF mode = "w" THEN <<>> ELSE content

\* print, os.makedirs, open(..., "w"); makedirs or open may raise
OpenLogSink ==
  /\ pc = "open_log"
  /\ stdout' = Append(stdout, MsgStarting)
  /\ \/ /\ logFile' = OpenFile(logFile, "w")
        /\ logOpened' = TRUE
        /\ pc' = "python"
        /\ UNCHANGED <<uncaught, exitCode>>
     \/ /\ Crash
        /\ UNCHANGED <<logFile, logOpened>>
  /\ UNCHANGED <<environ, fs, runs, elapsed, prepVars, SERVICE_DIR,
                 SYSTEM_PYTHON, server_proc, backendAlive, gateVars, diagVars,
                 config, routerInvoked>>

\* ------------------------------------------- interpreter (l. 73-77)
\* variant: the second candidate is never tried
SelectPythonSkipSecond(files) ==
  IF <<PythonCandidates[1]>> \in files THEN PythonCandidates[1]
  ELSE SysExecutable

SelectPython(files) ==
  LET first == PythonCandidates[1]
      second == IF <<first>> \in files THEN first ELSE PythonCandidates[2]
  IN IF <<second>> \in files THEN second ELSE SysExecutable

ChoosePython ==
  /\ pc = "python"
  /\ SYSTEM_PYTHON' = SelectPython(fs)
  /\ pc' = "launch"
  /\ UNCHANGED <<environ, fs, runs, elapsed, prepVars, SERVICE_DIR, logOpened,
                 server_proc, logFile, backendAlive, gateVars, stdout,
                 diagVars, endVars>>

\* ------------------------------------------- Popen (l. 79-90)
\* variant: the controller's environment is passed through unchanged
ChildEnvPassThrough(env) == env

\* env={**os.environ, "DISPLAY": ":99"}
ChildEnv(env) == [env EXCEPT !["DISPLAY"] = CHILD_DISPLAY]

Launched == server_proc # NoProc

\* subprocess.Popen of the backend, then the print of line 90; Popen may raise
LaunchBackend ==
  /\ pc = "launch"
  /\ \/ /\ server_proc' = [argv |-> <<SYSTEM_PYTHON, ENTRY_POINT>>,
                           cwd |-> SERVICE_DIR,
                           env |-> ChildEnv(environ)]
        /\ backendAlive' = TRUE
        /\ stdout' = Append(stdout, MsgWaiting)
        /\ pc' = "probe"
        /\ UNCHANGED <<uncaught, exitCode>>
     \/ /\ Crash
        /\ UNCHANGED <<server_proc, backendAlive, stdout>>
  /\ UNCHANGED <<environ, fs, runs, elapsed, prepVars, SERVICE_DIR,
                 SYSTEM_PYTHON, logOpened, logFile, gateVars, diagVars, config,
                 routerInvoked>>

\* ------------------------------------------- the backend child
\* the child appends ChunkLines lines to its stdout/stderr, the log sink
BackendWrite ==
  /\ backendAlive
  /\ Len(logFile) + ChunkLines <= MaxLogLines
  /\ logFile' = logFile \o [k \in 1..ChunkLines |-> Len(logFile) + k]
  /\ UNCHANGED <<pc, environ, fs, runs, elapsed, prepVars, launchVars,
                 backendAlive, gateVars, stdout, diagVars, endVars>>

\* the child ends by itself; the script never waits for it nor kills it
BackendExit ==
  /\ backendAlive
  /\ backendAlive' = FALSE
  /\ UNCHANGED <<pc, environ, fs, runs, elapsed, prepVars, launchVars, logFile,
                 gateVars, stdout, diagVars, endVars>>

\* ------------------------------------------- 4. health loop (l. 93-102)
\* urlopen returns a response (2xx) or raises (HTTPError, URLError, timeout)
ProbeOutcomes ==
  {[raised |-> FALSE, status |-> 200],
   [raised |-> FALSE, status |-> 204],
   [raised |-> TRUE, status |-> 503],
   [raised |-> TRUE, status |-> 0]}

\* variant: any response that does not raise counts as healthy
ProbeSucceedsAnyStatus(resp) == ~resp.raised

\* the probe makes the loop break
ProbeSucceeds(resp) == ~resp.raised /\ resp.status = 200

\* variant: the loop does not break on success and sleeps once more
HealthProbeNoBreak ==
  /\ pc = "probe"
  /\ \E resp \in ProbeOutcomes :
       /\ probes' = probes + 1
       /\ got200' = (got200 \/ resp.status = 200)
       /\ first200' = IF first200 = 0 /\ resp.status = 200 THEN probes + 1
                      ELSE first200
       /\ healthy' = (healthy \/ ProbeSucceeds(resp))
       /\ pc' = "sleep"
  /\ UNCHANGED <<environ, fs, runs, elapsed, prepVars, launchVars, logFile,
                 backendAlive, i, sleeps, stdout, diagVars, endVars>>

\* variant: an HTTP error status ends the polling at once
HealthProbeFailFast ==
  /\ pc = "probe"
  /\ \E resp \in ProbeOutcomes :
       /\ probes' = probes + 1
       /\ got200' = (got200 \/ resp.status = 200)
       /\ first200' = IF first200 = 0 /\ resp.status = 200 THEN probes + 1
                      ELSE first200
       /\ IF ProbeSucceeds(resp)
            THEN healthy' = TRUE /\ pc' = "after_loop"
            ELSE /\ healthy' = healthy
                 /\ pc' = IF resp.raised /\ resp.status # 0 THEN "after_loop"
                          ELSE "sleep"
  /\ UNCHANGED <<environ, fs, runs, elapsed, prepVars, launchVars, logFile,
                 backendAlive, i, sleeps, stdout, diagVars, endVars>>

\* one urlopen and the if/except around it, the clock left aside
HealthProbeStep ==
  /\ pc = "probe"
  /\ \E resp \in ProbeOutcomes :
       /\ probes' = probes + 1
       /\ got200' = (got200 \/ resp.status = 200)
       /\ first200' = IF first200 = 0 /\ resp.status = 200 THEN probes + 1
                      ELSE first200
       /\ IF ProbeSucceeds(resp)
            THEN healthy' = TRUE /\ pc' = "after_loop"
            ELSE healthy' = healthy /\ pc' = "sleep"
  /\ UNCHANGED <<environ, fs, runs, prepVars, launchVars, logFile,
                 backendAlive, i, sleeps, stdout, diagVars, endVars>>

\* the probe where time is not counted
HealthProbe == HealthProbeStep /\ UNCHANGED elapsed

\* time a probe may take: urlopen(..., timeout=2)
ProbeTimeout == 2

\* variant: urlopen gives up one time unit late
ProbeDurationsLate == 0..(ProbeTimeout + 1)

ProbeDurations == 0..ProbeTimeout

\* the probe where time is counted
HealthProbeTimed ==
  /\ HealthProbeStep
  /\ \E d \in ProbeDurations : elapsed' = elapsed + d

\* time.sleep(1), then the next iteration of range(60)
HealthSleepStep ==
  /\ pc = "sleep"
  /\ sleeps' = sleeps + 1
  /\ i' = i + 1
  /\ pc' = IF i + 1 < MaxAttempts THEN "probe" ELSE "after_loop"
  /\ UNCHANGED <<environ, fs, runs, prepVars, launchVars, logFile,
                 backendAlive, healthy, probes, got200, first200, stdout,
                 diagVars, endVars>>

\* the sleep where time is not counted
HealthSleep == HealthSleepStep /\ UNCHANGED elapsed

\* time.sleep(1)
SleepInterval == 1

\* the sleep where time is counted
HealthSleepTimed == HealthSleepStep /\ elapsed' = elapsed + SleepInterval

\* ------------------------------------------- failure branch (l. 104-117)
\* variant: an unhealthy backend is launched again
CheckHealthyRelaunch ==
  /\ pc = "after_loop"
  /\ IF healthy
       THEN stdout' = Append(stdout, MsgHealthy) /\ pc' = "handoff"
       ELSE stdout' = Append(stdout, MsgUnhealthy) /\ pc' = "launch"
  /\ UNCHANGED <<environ, fs, runs, elapsed, prepVars, launchVars, logFile,
                 backendAlive, gateVars, diagVars, endVars>>

\* if not healthy: print of line 105; else print of line 117
CheckHealthy ==
  /\ pc = "after_loop"
  /\ IF healthy
       THEN stdout' = Append(stdout, MsgHealthy) /\ pc' = "handoff"
       ELSE stdout' = Append(stdout, MsgUnhealthy) /\ pc' = "diag"
  /\ UNCHANGED <<environ, fs, runs, elapsed, prepVars, launchVars, logFile,
                 backendAlive, gateVars, diagVars, endVars>>

\* lines[-n:]
LastLines(lines, n) ==
  SubSeq(lines, IF Len(lines) > n THEN Len(lines) - n + 1 ELSE 1, Len(lines))

\* variant: the backend is terminated before its log is read
ReadLogTailAfterTerminate ==
  /\ pc = "diag"
  /\ backendAlive' = FALSE
  /\ \/ /\ logRead' = "ok"
        /\ readLines' = logFile
        /\ printedLines' = LastLines(logFile, TailLines)
     \/ /\ logRead' = "raises"
        /\ UNCHANGED <<readLines, printedLines>>
  /\ pc' = "unhealthy_exit"
  /\ UNCHANGED <<environ, fs, runs, elapsed, prepVars, launchVars, logFile,
                 gateVars, stdout, endVars>>

\* the try block of lines 107-114: flush, open, readlines, print the tail;
\* an exception is swallowed
ReadLogTail ==
  /\ pc = "diag"
  /\ \/ /\ logRead' = "ok"
        /\ readLines' = logFile
        /\ printedLines' = LastLines(logFile, TailLines)
     \/ /\ logRead' = "raises"
        /\ UNCHANGED <<readLines, printedLines>>
  /\ pc' = "unhealthy_exit"
  /\ UNCHANGED <<environ, fs, runs, elapsed, prepVars, launchVars, logFile,
                 backendAlive, gateVars, stdout, endVars>>

\* variant: the sys.exit(1) is missing and the script falls through
UnhealthyExitFallThrough ==
  /\ pc = "unhealthy_exit"
  /\ pc' = "handoff"
  /\ UNCHANGED <<environ, fs, runs, elapsed, prepVars, launchVars, logFile,
                 backendAlive, gateVars, stdout, diagVars, endVars>>

\* variant: the children are terminated before the exit
UnhealthyExitTerminates ==
  /\ pc = "unhealthy_exit"
  /\ exitCode' = ExitCodeUnhealthy
  /\ pc' = "exited"
  /\ backendAlive' = FALSE
  /\ xvfbAlive' = FALSE
  /\ UNCHANGED <<environ, fs, runs, elapsed, xvfbOutcome, xvfbStarted,
                 caOutcome, launchVars, logFile, gateVars, stdout, diagVars,
                 config, routerInvoked, uncaught>>

\* sys.exit(1) of line 115
UnhealthyExit ==
  /\ pc = "unhealthy_exit"
  /\ exitCode' = ExitCodeUnhealthy
  /\ pc' = "exited"
  /\ UNCHANGED <<environ, fs, runs, elapsed, prepVars, launchVars, logFile,
                 backendAlive, gateVars, stdout, diagVars, config,
                 routerInvoked, uncaught>>

\* ------------------------------------------- 5. handoff (l. 122-154)
\* variant: the status route waits as long as the primary route
HandlersSlowStatus ==
  <<[route |-> "/generate", allow_parallel_requests |-> TRUE,
     max_queue_time |-> 180, workload |-> 100],
    [route |-> "/status", allow_parallel_requests |-> TRUE,
     max_queue_time |-> 180, workload |-> 1],
    [route |-> "/health", allow_parallel_requests |-> TRUE,
     max_queue_time |-> 5, workload |-> 1]>>

Handlers ==
  <<[route |-> "/generate", allow_parallel_requests |-> TRUE,
     max_queue_time |-> 180, workload |-> 100],
    [route |-> "/status", allow_parallel_requests |-> TRUE,
     max_queue_time |-> 5, workload |-> 1],
    [route |-> "/health", allow_parallel_requests |-> TRUE,
     max_queue_time |-> 5, workload |-> 1]>>

WorkerConfig ==
  [model_server_url |-> "http://127.0.0.1",
   model_server_port |-> 8080,
   model_log_file |-> LOG_PATH,
   handlers |-> Handlers,
   on_load |-> <<"Uvicorn running on", "Application startup complete">>,
   on_error |-> <<"ERROR", "Traceback">>]

\* import vastai, build the config, call Worker(config).run(); the import or
\* the constructors may raise
Handoff ==
  /\ pc = "handoff"
  /\ \/ /\ config' = WorkerConfig
        /\ routerInvoked' = TRUE
        /\ pc' = "router"
        /\ UNCHANGED <<uncaught, exitCode>>
     \/ /\ Crash
        /\ UNCHANGED <<config, routerInvoked>>
  /\ UNCHANGED <<environ, fs, runs, elapsed, prepVars, launchVars, logFile,
                 backendAlive, gateVars, stdout, diagVars>>

\* Worker(config).run() returns: the script ends
RouterReturn ==
  /\ pc = "router"
  /\ exitCode' = ExitCodeNormal
  /\ pc' = "exited"
  /\ UNCHANGED <<environ, fs, runs, elapsed, prepVars, launchVars, logFile,
                 backendAlive, gateVars, stdout, diagVars, config,
                 routerInvoked, uncaught>>

\* Worker(config).run() raises
RouterRaise ==
  /\ pc = "router"
  /\ Crash
  /\ UNCHANGED <<environ, fs, runs, elapsed, prepVars, launchVars, logFile,
                 backendAlive, gateVars, stdout, diagVars, config,
                 routerInvoked>>

Next ==
  \/ SetDefaultDisplay
  \/ XvfbCheck
  \/ InstallCA
  \/ LookupServiceDir
  \/ NoEntryReport
  \/ NoEntryExit
  \/ OpenLogSink
  \/ ChoosePython
  \/ LaunchBackend
  \/ BackendWrite
  \/ BackendExit
  \/ XvfbExit
  \/ HealthProbe
  \/ HealthSleep
  \/ CheckHealthy
  \/ ReadLogTail
  \/ UnhealthyExit
  \/ Handoff
  \/ RouterReturn
  \/ RouterRaise

Spec == Init /\ [][Next]_vars

\* ---------------------------------------------- the gate, from few starts
\* DISPLAY unset, an empty log sink, and either no tested path or all of
\* them present
InitGate ==
  /\ Init
  /\ environ.DISPLAY = UNSET
  /\ logFile = <<>>
  /\ fs \in {{}, Paths}

\* a step of the script up to the call of the Router; each of them ends:
\* the external commands and urlopen have timeouts, the sleeps are finite
ScriptStep ==
  \/ SetDefaultDisplay
  \/ XvfbCheck
  \/ InstallCA
  \/ LookupServiceDir
  \/ NoEntryReport
  \/ NoEntryExit
  \/ OpenLogSink
  \/ ChoosePython
  \/ LaunchBackend
  \/ HealthProbe
  \/ HealthSleep
  \/ CheckHealthy
  \/ ReadLogTail
  \/ UnhealthyExit
  \/ Handoff

FairSpec == InitGate /\ [][Next]_vars /\ WF_vars(ScriptStep)

\* the script with the time of the health loop counted
NextTimed ==
  \/ SetDefaultDisplay
  \/ XvfbCheck
  \/ InstallCA
  \/ LookupServiceDir
  \/ NoEntryReport
  \/ NoEntryExit
  \/ OpenLogSink
  \/ ChoosePython
  \/ LaunchBackend
  \/ BackendWrite
  \/ BackendExit
  \/ XvfbExit
  \/ HealthProbeTimed
  \/ HealthSleepTimed
  \/ CheckHealthy
  \/ ReadLogTail
  \/ UnhealthyExit
  \/ Handoff
  \/ RouterReturn
  \/ RouterRaise

SpecTimed == InitGate /\ [][NextTimed]_vars

\* ---------------------------------------------- the Preparer run again
\* the script is started again after its Preparer part (l. 19-49) ended:
\* a new process, the spawned Xvfb and the file system as they are
Restart ==
  /\ pc = "lookup"
  /\ runs < MaxRuns
  /\ runs' = runs + 1
  /\ pc' = "setdefault"
  /\ environ' \in [DISPLAY : InitialDisplays]
  /\ xvfbOutcome' = NONE
  /\ caOutcome' = NONE
  /\ UNCHANGED <<fs, elapsed, xvfbStarted, xvfbAlive, launchVars, logFile,
                 backendAlive, gateVars, stdout, diagVars, endVars>>

NextRestart ==
  \/ SetDefaultDisplay
  \/ XvfbCheck
  \/ InstallCA
  \/ XvfbExit
  \/ Restart

SpecRestart == Init /\ [][NextRestart]_vars

TypeOK ==
  /\ exitCode \in {-1, 0, 1}
  /\ i \in 0..MaxAttempts
  /\ probes \in 0..MaxAttempts

\* ====================================================== properties
InStdout(msg) == \E k \in 1..Len(stdout) : stdout[k] = msg

Exited == pc = "exited"

\* the script left through sys.exit(1) of line 63 / of line 115
ExitedNoEntry == Exited /\ InStdout(MsgNoEntry)
ExitedUnhealthy == Exited /\ InStdout(MsgUnhealthy)

NoEntryPoint ==
  \A k \in 1..Len(Candidates) : ~Exists(Join(Candidates[k], ENTRY_POINT))

\* C1: the Router is invoked (and the handoff prepared) only after some
\* health probe returned HTTP 200; when all 60 probes fail the Router is
\* never invoked and no configuration is built.
C1_RouterOnlyAfter200 ==
  /\ (routerInvoked \/ config # NoConfig \/ pc \in {"handoff", "router"})
       => got200
  /\ (probes = 60 /\ ~got200) => (~routerInvoked /\ config = NoConfig)

C1_Witness == routerInvoked /\ got200 /\ first200 = 3

\* C2: when neither candidate directory holds app_server.py the script
\* exits with code 1 and never opens the log sink, launches the backend,
\* probes the health endpoint or hands off.
C2_NoEntryNoLaunch ==
  NoEntryPoint =>
    /\ pc \in {"setdefault", "xvfb", "ca", "lookup", "no_entry",
               "no_entry_exit", "exited"}
    /\ ~Launched /\ ~backendAlive /\ ~logOpened
    /\ probes = 0 /\ sleeps = 0
    /\ ~routerInvoked /\ config = NoConfig
    /\ Exited => (exitCode = 1 /\ ~uncaught)

C2_Witness == NoEntryPoint /\ Exited /\ exitCode = 1

\* C3: when the health endpoint first returns 200 on poll N (1 <= N <= 60)
\* the loop is left healthy after exactly N probes and N-1 sleeps, and no
\* probe or sleep follows.
C3_ExactlyNProbes ==
  first200 # 0 =>
    /\ first200 \in 1..60
    /\ healthy
    /\ probes = first200
    /\ sleeps = first200 - 1
    /\ pc \in {"after_loop", "handoff", "router", "exited"}

C3_Witness == first200 = 60 /\ routerInvoked

Min(a, b) == IF a < b THEN a ELSE b

\* s is the last Len(s) elements of t
IsSuffix(s, t) ==
  /\ Len(s) <= Len(t)
  /\ \A k \in 1..Len(s) : s[k] = t[Len(t) - Len(s) + k]

\* C4: when no probe returns 200 the loop makes exactly 60 probes, then the
\* script prints the last 20 lines of the log sink (all of them when there
\* are fewer) and exits non-zero, also when reading the log sink fails.
C4_SixtyProbesThenTail ==
  /\ probes <= 60
  /\ (~got200 /\ pc \in {"after_loop", "diag", "unhealthy_exit"}) => probes = 60
  /\ (~got200 /\ Exited /\ probes > 0 /\ ~uncaught) =>
       (probes = 60 /\ logRead # NONE /\ exitCode # 0 /\ ~routerInvoked)
  /\ logRead = "ok" =>
       /\ Len(printedLines) = Min(Len(readLines), 20)
       /\ IsSuffix(printedLines, readLines)
  /\ logRead = "raises" => printedLines = <<>>
  /\ (Exited /\ logRead # NONE) => exitCode # 0

C4_Witness ==
  /\ Exited /\ ~got200 /\ probes = 60
  /\ logRead = "ok" /\ Len(readLines) > 20 /\ Len(printedLines) = 20
  /\ exitCode = 1

\* C5: whatever the Xvfb block and the CA block meet, the step out of each
\* goes on to the next block, the process still running, so the script
\* reaches the service-directory lookup.
C5_PreparerNeverFatal ==
  [][/\ (pc = "xvfb" /\ pc' # pc)
          => (pc' = "ca" /\ exitCode' = -1 /\ ~uncaught')
     /\ (pc = "ca" /\ pc' # pc)
          => (pc' = "lookup" /\ exitCode' = -1 /\ ~uncaught')]_vars

C5_Witness ==
  pc = "lookup" /\ xvfbOutcome = "check_raises" /\ caOutcome = "raises"

\* C6: exit code 0 only after the handoff; every exit before the handoff is
\* non-zero; the two sys.exit paths (entry point not found, health timeout)
\* exit with code 1.
C6_ExitCodes ==
  /\ (Exited /\ exitCode = 0) => routerInvoked
  /\ (Exited /\ ~routerInvoked) => exitCode # 0
  /\ ExitedNoEntry => exitCode = 1
  /\ ExitedUnhealthy => exitCode = 1

C6_Witness == ExitedUnhealthy /\ exitCode = 1 /\ ~routerInvoked

\* C7 as stated: the backend child's DISPLAY equals the controller's
\* DISPLAY after defaulting.
C7_Original == Launched => server_proc.env.DISPLAY = environ.DISPLAY

\* C7 amended: the backend child's DISPLAY is always ":99"; it equals the
\* controller's DISPLAY after defaulting exactly when that is ":99" (DISPLAY
\* unset or pre-set to ":99").
C7_ChildDisplayFixed ==
  Launched =>
    /\ server_proc.env.DISPLAY = ":99"
    /\ (server_proc.env.DISPLAY = environ.DISPLAY) <=> (environ.DISPLAY = ":99")

C7_Witness == Launched /\ environ.DISPLAY = ":0"

\* no line of a previous run is in the log sink
NoOldLines == \A k \in 1..Len(logFile) : logFile[k] # 0

\* C8 as stated: after a run that ended in handoff, health timeout or entry
\* point not found, nothing of a previous run remains in the log sink.
C8_Original ==
  (routerInvoked \/ ExitedUnhealthy \/ ExitedNoEntry) => NoOldLines

\* C8 amended: the log sink is truncated when the script opens it, after
\* the service directory was found: after handoff or health timeout nothing
\* of a previous run remains; a run that ends with entry point not found
\* never opens the log sink and leaves it as it was.
C8_TruncatedWhenOpened ==
  /\ [](logOpened => NoOldLines)
  /\ []((routerInvoked \/ ExitedUnhealthy) => logOpened)
  /\ [](ExitedNoEntry => ~logOpened)
  /\ [][~logOpened' => logFile' = logFile]_vars

C8_Witness == ExitedUnhealthy /\ logOpened /\ logFile # <<>> /\ NoOldLines

\* C9: a failing precondition step prints a warning: a failing Xvfb check
\* ends with the "check failed" line, and a failing certutil (raising or
\* non-zero) prints a line that is not the success line.
C9_FailuresLogged ==
  [][/\ (pc = "xvfb" /\ xvfbOutcome' \in {"check_raises", "popen_raises"})
          => (stdout' # stdout /\ stdout'[Len(stdout')] = MsgXvfbFailed)
     /\ (pc = "ca" /\ caOutcome' \in {"nonzero", "raises"})
          => (stdout' # stdout /\ stdout'[Len(stdout')] # MsgCAInstalled)]_vars

Routes(handlers) == {handlers[k].route : k \in 1..Len(handlers)}

QueueTime(handlers, route) ==
  handlers[CHOOSE k \in 1..Len(handlers) : handlers[k].route = route].max_queue_time

\* C10: the handlers handed to the Router are exactly /generate, /status and
\* /health, with distinct route paths, and /status and /health have a max
\* queue time strictly below that of /generate.
C10_Routes ==
  routerInvoked =>
    /\ Routes(config.handlers) = {"/generate", "/status", "/health"}
    /\ Len(config.handlers) = 3
    /\ Cardinality(Routes(config.handlers)) = Len(config.handlers)
    /\ \A r \in {"/status", "/health"} :
         QueueTime(config.handlers, r) < QueueTime(config.handlers, "/generate")

C10_Witness == routerInvoked /\ config.handlers # <<>> /\ pc = "router"

\* C11: the backend's working directory is the first candidate of
\* [/root/service, /workspace] that holds app_server.py: /root/service
\* whenever it has the file, /workspace only when /root/service lacks it and
\* /workspace has it.
C11_FirstCandidateWins ==
  Launched =>
    /\ server_proc.cwd = SERVICE_DIR
    /\ server_proc.cwd \in {"/root/service", "/workspace"}
    /\ Exists(<<"/root/service", "app_server.py">>)
         => server_proc.cwd = "/root/service"
    /\ server_proc.cwd = "/workspace"
         => /\ ~Exists(<<"/root/service", "app_server.py">>)
            /\ Exists(<<"/workspace", "app_server.py">>)

C11_Witness ==
  /\ Launched /\ server_proc.cwd = "/root/service"
  /\ Exists(<<"/root/service", "app_server.py">>)
  /\ Exists(<<"/workspace", "app_server.py">>)

\* C13: on both sys.exit(1) paths the ERROR line is the last line printed
\* when the exit step is taken, and the exit step prints nothing itself.
C13_ErrorBeforeExit ==
  [][(exitCode = -1 /\ exitCode' # -1 /\ ~uncaught' /\ ~routerInvoked) =>
       /\ stdout' = stdout
       /\ Len(stdout) > 0
       /\ stdout[Len(stdout)] =
            (IF SERVICE_DIR = NONE THEN MsgNoEntry ELSE MsgUnhealthy)]_vars

C13_Witness ==
  /\ Exited /\ SERVICE_DIR = NONE /\ exitCode = 1
  /\ Len(stdout) > 0 /\ stdout[Len(stdout)] = MsgNoEntry

\* phase of a position: prepare, launch, health-poll, handoff, ended
PhaseOf(p) ==
  CASE p \in {"setdefault", "xvfb", "ca"} -> 1
    [] p \in {"lookup", "no_entry", "no_entry_exit", "open_log", "python",
              "launch"} -> 2
    [] p \in {"probe", "sleep", "after_loop", "diag", "unhealthy_exit"} -> 3
    [] p \in {"handoff", "router"} -> 4
    [] p = "exited" -> 5

\* C14: the phases prepare, launch, health-poll, handoff are passed in this
\* order and never re-entered; the backend is launched at most once and no
\* probe is made before it is launched.
C14_PhasesInOrder ==
  [][/\ PhaseOf(pc') >= PhaseOf(pc)
     /\ Launched => server_proc' = server_proc
     /\ (~backendAlive /\ backendAlive') => (~Launched /\ pc = "launch")
     /\ probes' > probes => (Launched /\ PhaseOf(pc) = 3)
     /\ routerInvoked' => PhaseOf(pc') >= 4]_vars

C14_Witness == pc = "router" /\ Launched /\ probes > 1 /\ xvfbOutcome # NONE

\* C15: a probe that does not return 200 leaves the gate polling, consumes
\* one attempt and is followed by one sleep, whatever the outcome was; the
\* failure branch is entered only after the 60th attempt.
C15_Non200Uniform ==
  /\ [][/\ (pc = "probe" /\ pc' # "probe" /\ first200' = 0) =>
             /\ pc' = "sleep" /\ ~healthy'
             /\ probes' = probes + 1 /\ sleeps' = sleeps /\ i' = i
        /\ (pc = "sleep" /\ pc' # "sleep") =>
             /\ sleeps' = sleeps + 1 /\ probes' = probes /\ ~healthy'
             /\ pc' \in {"probe", "after_loop"}
             /\ pc' = "after_loop" => probes = 60]_vars
  /\ [](pc \in {"diag", "unhealthy_exit"} => (probes = 60 /\ sleeps = 60))

C15_Witness == pc = "probe" /\ probes = 59 /\ sleeps = 59 /\ first200 = 0

\* C17 as stated: when the diagnostic read is made the backend child is not
\* running, so no write to the log sink can be concurrent with the read.
C17_Original == pc = "diag" => ~backendAlive

\* C17 amended: the log sink is read only in the failure branch, after 60
\* probes without success; the script does not stop the backend child before
\* or at the read, so the child may still be running and writing then.
C17_ReadOnlyAfterFailed ==
  /\ [](logRead # NONE => (~healthy /\ probes = 60 /\ ~routerInvoked))
  /\ [][(pc = "diag" /\ pc' # "diag") => backendAlive' = backendAlive]_vars

C17_Witness == pc = "unhealthy_exit" /\ logRead = "ok" /\ backendAlive

\* C19: the interpreter of the backend is /usr/bin/python3 when it exists,
\* else /usr/local/bin/python3 when it exists, else sys.executable.
C19_InterpreterOrder ==
  Launched =>
    /\ server_proc.argv = <<SYSTEM_PYTHON, "app_server.py">>
    /\ Exists(<<"/usr/bin/python3">>) => SYSTEM_PYTHON = "/usr/bin/python3"
    /\ (~Exists(<<"/usr/bin/python3">>) /\ Exists(<<"/usr/local/bin/python3">>))
         => SYSTEM_PYTHON = "/usr/local/bin/python3"
    /\ SYSTEM_PYTHON = "sys.executable"
         <=> (~Exists(<<"/usr/bin/python3">>)
                /\ ~Exists(<<"/usr/local/bin/python3">>))

C19_Witness ==
  /\ Launched /\ SYSTEM_PYTHON = "/usr/local/bin/python3"
  /\ ~Exists(<<"/usr/bin/python3">>)

\* C12: in a second run of the Preparer, as in the first, every step goes on
\* to the next block with the process running; a check made while the Xvfb
\* spawned before is still running spawns no other one, and no run spawns
\* more than one.
C12_PreparerTwice ==
  [][/\ (pc = "xvfb" /\ pc' # pc)
          => (pc' = "ca" /\ exitCode' = -1 /\ ~uncaught')
     /\ (pc = "ca" /\ pc' # pc)
          => (pc' = "lookup" /\ exitCode' = -1 /\ ~uncaught')
     /\ (pc = "xvfb" /\ xvfbAlive) => xvfbStarted' = xvfbStarted
     /\ xvfbStarted' <= runs']_vars

C12_Witness ==
  /\ runs = 2 /\ pc = "lookup"
  /\ xvfbOutcome = "running" /\ xvfbAlive /\ xvfbStarted = 1

\* the gate has left STARTING: READY or FAILED
GateReady == healthy /\ pc \notin {"probe", "sleep"}
GateFailed == ~healthy /\ probes > 0 /\ pc \notin {"probe", "sleep"}

\* C16: the health loop ends, READY or FAILED, after at most 60 probes, and
\* the script then reaches one outcome: the call of the Router when READY, or
\* an exit with a non-zero code without the Router.
C16_GateTerminates ==
  /\ [](probes <= 60)
  /\ (pc = "probe") ~> (GateReady \/ GateFailed)
  /\ (GateReady \/ GateFailed)
       ~> (routerInvoked \/ (Exited /\ exitCode # 0))
  /\ [](routerInvoked => GateReady)
  /\ [](GateFailed => ~routerInvoked)
  /\ []((GateFailed /\ Exited) => exitCode # 0)

C16_Witness == GateFailed /\ Exited /\ exitCode = 1 /\ probes = 60

====
